---- MODULE Spec2Model ----
(***************************************************************************)
(* Model of Testprojects/generate_reports.py: the coverage-report          *)
(* orchestration script.  The state is the filesystem the script reads and *)
(* writes, the position of the (single-threaded) script, its local         *)
(* variables and exit status, and a log of the operations performed in the *)
(* current run.  External tools are the environment: each invocation       *)
(* nondeterministically returns an exit code and may write its artifact.   *)
(***************************************************************************)
EXTENDS Integers, Sequences, FiniteSets

\* ------------------------------------------------------------------ bounds

\* Largest file size (bytes) an external tool writes.
MaxSize == 1
\* Largest exit code an external tool returns.
MaxRC == 1
\* Number of consecutive runs of the script on the same filesystem.
MaxRuns == 2

\* ------------------------------------------------------------------- paths

CSHARP_COVERAGE_OUTPUT_DIR == "CSharp/Reports"
CSHARP_COBERTURA_XML_PATH == "CSharp/Reports/coverage.cobertura.xml"
CSHARP_REPORTS_FROM_GO_TOOL_DIR == "reports/csharp_project_go_tool_report"
CSHARP_REPORTS_FROM_DOTNET_TOOL_DIR == "reports/csharp_project_dotnet_tool_report"
GO_PROJECT_TO_TEST_PATH == "Go"
GO_PROJECT_NATIVE_COVERAGE_FILE == "Go/coverage.out"
GO_PROJECT_COBERTURA_XML_FILE == "Go/coverage.cobertura.xml"
GO_PROJECT_REPORTS_FROM_GO_TOOL_DIR == "reports/go_project_go_tool_report"
GO_PROJECT_REPORTS_FROM_DOTNET_TOOL_DIR == "reports/go_project_dotnet_tool_report"
GO_REPORT_GENERATOR_CMD_PATH == "go_report_generator/cmd"
DOTNET_REPORT_GENERATOR_DLL_PATH == "src/ReportGenerator.Console.NetCore/bin/Debug/net8.0/ReportGenerator.dll"
go_main_file == "go_report_generator/cmd/main.go"

\* dir_path / "Summary.txt"
SummaryTxt(dir) ==
    CASE dir = CSHARP_REPORTS_FROM_GO_TOOL_DIR -> "reports/csharp_project_go_tool_report/Summary.txt"
      [] dir = CSHARP_REPORTS_FROM_DOTNET_TOOL_DIR -> "reports/csharp_project_dotnet_tool_report/Summary.txt"
      [] dir = GO_PROJECT_REPORTS_FROM_GO_TOOL_DIR -> "reports/go_project_go_tool_report/Summary.txt"
      [] dir = GO_PROJECT_REPORTS_FROM_DOTNET_TOOL_DIR -> "reports/go_project_dotnet_tool_report/Summary.txt"

\* A plausible slip: the .NET tool's directory is left out of the loop.
CsDirs_Short == << CSHARP_COVERAGE_OUTPUT_DIR, CSHARP_REPORTS_FROM_GO_TOOL_DIR >>

\* The directories ensured by each workflow, in the order of its for loop.
CsDirs == << CSHARP_COVERAGE_OUTPUT_DIR, CSHARP_REPORTS_FROM_GO_TOOL_DIR,
             CSHARP_REPORTS_FROM_DOTNET_TOOL_DIR >>
GoDirs == << GO_PROJECT_REPORTS_FROM_GO_TOOL_DIR, GO_PROJECT_REPORTS_FROM_DOTNET_TOOL_DIR >>

OutputDirs == { CSHARP_COVERAGE_OUTPUT_DIR, CSHARP_REPORTS_FROM_GO_TOOL_DIR,
                CSHARP_REPORTS_FROM_DOTNET_TOOL_DIR, GO_PROJECT_REPORTS_FROM_GO_TOOL_DIR,
                GO_PROJECT_REPORTS_FROM_DOTNET_TOOL_DIR }

Dirs == OutputDirs \cup { GO_PROJECT_TO_TEST_PATH, GO_REPORT_GENERATOR_CMD_PATH }

CoverageFiles == { CSHARP_COBERTURA_XML_PATH, GO_PROJECT_NATIVE_COVERAGE_FILE,
                   GO_PROJECT_COBERTURA_XML_FILE }

SummaryFiles == { SummaryTxt(d) : d \in OutputDirs \ { CSHARP_COVERAGE_OUTPUT_DIR } }

ToolFiles == { go_main_file, DOTNET_REPORT_GENERATOR_DLL_PATH }

Files == CoverageFiles \cup SummaryFiles \cup ToolFiles

\* ------------------------------------------------------ external commands

\* The command_name of every run_command call of the script.
DOTNET_TEST == "dotnet test (C#)"
GO_REPORT_CSHARP == "Go Report Generator (for C#)"
DOTNET_RG_CSHARP == ".NET ReportGenerator (for C#)"
GO_TEST == "go test (Go project)"
GOCOVER_COBERTURA == "gocover-cobertura"
GO_REPORT_GO_PROJ == "Go Report Generator (for Go project)"
DOTNET_RG_GO_PROJ == ".NET ReportGenerator (for Go project)"

CsCommands == { DOTNET_TEST, GO_REPORT_CSHARP, DOTNET_RG_CSHARP }
GoCommands == { GO_TEST, GOCOVER_COBERTURA, GO_REPORT_GO_PROJ, DOTNET_RG_GO_PROJ }
Commands == CsCommands \cup GoCommands
GoToolCommands == { GO_REPORT_CSHARP, GO_REPORT_GO_PROJ }
DotnetToolCommands == { DOTNET_RG_CSHARP, DOTNET_RG_GO_PROJ }
Generators == GoToolCommands \cup DotnetToolCommands

\* The directory a command is told to write into (-output= / -targetdir: /
\* CoverletOutput= / the working directory of go test and the converter).
OutDir(c) ==
    CASE c = DOTNET_TEST -> CSHARP_COVERAGE_OUTPUT_DIR
      [] c = GO_REPORT_CSHARP -> CSHARP_REPORTS_FROM_GO_TOOL_DIR
      [] c = DOTNET_RG_CSHARP -> CSHARP_REPORTS_FROM_DOTNET_TOOL_DIR
      [] c = GO_TEST -> GO_PROJECT_TO_TEST_PATH
      [] c = GOCOVER_COBERTURA -> GO_PROJECT_TO_TEST_PATH
      [] c = GO_REPORT_GO_PROJ -> GO_PROJECT_REPORTS_FROM_GO_TOOL_DIR
      [] c = DOTNET_RG_GO_PROJ -> GO_PROJECT_REPORTS_FROM_DOTNET_TOOL_DIR

\* The file a command is expected to produce.
Artifact(c) ==
    CASE c = DOTNET_TEST -> CSHARP_COBERTURA_XML_PATH
      [] c = GO_TEST -> GO_PROJECT_NATIVE_COVERAGE_FILE
      [] c = GOCOVER_COBERTURA -> GO_PROJECT_COBERTURA_XML_FILE
      [] OTHER -> SummaryTxt(OutDir(c))

\* ------------------------------------------------------------------- state

VARIABLES
    fs,         \* file -> [exists, size]: the files the script reads or checks
    dirs,       \* the directories that exist
    written,    \* history: the files an external command wrote in this run
    pc,         \* position of the script
    exitCode,   \* process exit status once pc = "exited" (-1 while running)
    i,          \* index of the for loop over directories
    ret,        \* return value of the last check_file_generated call
    csharp_go_summary_ok, csharp_dotnet_summary_ok,
    go_proj_go_summary_ok, go_proj_dotnet_summary_ok,
    args,       \* arguments of the last run_command call
    process,    \* [invoked, returncode]: the subprocess.run of that call
    log,        \* history: the operations of the current run, in order
    run         \* number of the current run

vars == << fs, dirs, written, pc, exitCode, i, ret,
           csharp_go_summary_ok, csharp_dotnet_summary_ok,
           go_proj_go_summary_ok, go_proj_dotnet_summary_ok,
           args, process, log, run >>

locals == << ret, csharp_go_summary_ok, csharp_dotnet_summary_ok,
             go_proj_go_summary_ok, go_proj_dotnet_summary_ok >>

NoFile == [exists |-> FALSE, size |-> 0]
NoArgs == [name |-> "", is_string_command |-> FALSE, shell |-> FALSE]
NoProcess == [invoked |-> FALSE, returncode |-> 0]

\* A log entry.  kind: "preflight", "ensure_dir", "exists", "unlink", "run",
\* "check", "success" or "exit"; ok: the operation succeeded; code: the return
\* code (run), the exit status (exit), the size seen, -1 if absent (check);
\* aux: the command wrote a non-empty artifact (run), the file checked was
\* written during this run (check).
Ev(kind, target, ok, code, aux) ==
    [kind |-> kind, target |-> target, ok |-> ok, code |-> code, aux |-> aux]


\* --------------------------------------------------------------- helpers

Size(file_path) == IF fs[file_path].exists THEN fs[file_path].size ELSE -1

\* sys.exit(code), after the operations evs of the same step.
SysExit(code, evs) ==
    /\ pc' = "exited"
    /\ exitCode' = code
    /\ log' = log \o evs \o << Ev("exit", "", code = 0, code, FALSE) >>

\* The step completes and the script goes on at position next.
Goto(next, evs) ==
    /\ pc' = next
    /\ exitCode' = exitCode
    /\ log' = log \o evs

\* What an invoked external command may do: return with an exit code, having
\* written its artifact with size w (-1: not written), whatever the exit
\* code; or subprocess.run raises, the command not having run.
Outcomes ==
    { o \in [outcome : {"returned", "FileNotFoundError", "Exception"},
             returncode : 0..MaxRC, w : -1..MaxSize] :
        o.outcome # "returned" => (o.returncode = 0 /\ o.w = -1) }

\* A plausible slip: the check of a string given without shell=True is lost.
ListModeMismatch_Lost(is_string_command, shell) == FALSE

\* if shell and not is_string_command
ShellModeMismatch(is_string_command, shell) == shell /\ ~is_string_command

\* if not shell and is_string_command
ListModeMismatch(is_string_command, shell) == ~shell /\ is_string_command

\* A plausible slip: only negative return codes are taken as failures.
ReturnCodeIsError_Negative(returncode) == returncode < 0

\* if process.returncode != 0
ReturnCodeIsError(returncode) == returncode # 0

\* run_command(command_args_or_string, working_dir, command_name, shell)
RunCommand(command_name, is_string_command, shell, next) ==
    /\ args' = [name |-> command_name, is_string_command |-> is_string_command,
                shell |-> shell]
    /\ IF ShellModeMismatch(is_string_command, shell)
       THEN /\ SysExit(1, << Ev("reject", command_name, FALSE, 0, FALSE) >>)
            /\ process' = NoProcess
            /\ UNCHANGED << fs, written >>
       ELSE IF ListModeMismatch(is_string_command, shell)
       THEN /\ SysExit(1, << Ev("reject", command_name, FALSE, 0, FALSE) >>)
            /\ process' = NoProcess
            /\ UNCHANGED << fs, written >>
       ELSE \E o \in Outcomes :
            LET wrote == o.w >= 0 /\ OutDir(command_name) \in dirs
                f == Artifact(command_name)
            IN  /\ process' = [invoked |-> TRUE, returncode |-> o.returncode]
                /\ fs' = IF wrote THEN [fs EXCEPT ![f] = [exists |-> TRUE, size |-> o.w]]
                                  ELSE fs
                /\ written' = IF wrote THEN written \cup {f} ELSE written
                /\ IF o.outcome = "returned"
                   THEN IF ReturnCodeIsError(o.returncode)
                        THEN SysExit(1, << Ev("run", command_name, FALSE, o.returncode,
                                              wrote /\ o.w > 0) >>)
                        ELSE Goto(next, << Ev("run", command_name, TRUE, o.returncode,
                                              wrote /\ o.w > 0) >>)
                   ELSE SysExit(1, << Ev("raise", command_name, FALSE, 0, FALSE) >>)

\* ensure_dir(dir_path): mkdir(parents=True, exist_ok=True); an OSError exits.
EnsureDir(dir_path, next) ==
    IF dir_path \in dirs
    THEN /\ dirs' = dirs
         /\ Goto(next, << Ev("ensure_dir", dir_path, TRUE, 0, FALSE) >>)
    ELSE \E oserror \in BOOLEAN :
         IF oserror
         THEN /\ dirs' = dirs
              /\ SysExit(1, << Ev("ensure_dir", dir_path, FALSE, 0, FALSE) >>)
         ELSE /\ dirs' = dirs \cup {dir_path}
              /\ Goto(next, << Ev("ensure_dir", dir_path, TRUE, 0, FALSE) >>)

\* A plausible slip: the size test is lost, an empty file passes.
CheckFileGenerated_ExistsOnly(file_path) ==
    IF ~fs[file_path].exists THEN FALSE ELSE TRUE

\* check_file_generated(file_path, file_description): its return value.
CheckFileGenerated(file_path) ==
    IF ~fs[file_path].exists \/ fs[file_path].size = 0 THEN FALSE ELSE TRUE

\* A call of check_file_generated: the value is returned to the caller.
CallCheck(file_path, next) ==
    /\ ret' = CheckFileGenerated(file_path)
    /\ Goto(next, << Ev("check", file_path, ret', Size(file_path),
                        file_path \in written) >>)
    /\ UNCHANGED << fs, dirs, written, i, args, process, run >>

\* file_path.unlink(missing_ok=True): an OSError other than "no such file"
\* is not caught anywhere, and the interpreter exits with status 1.
Unlink(file_path, next) ==
    IF ~fs[file_path].exists
    THEN /\ UNCHANGED << fs, written >>
         /\ Goto(next, << Ev("unlink", file_path, TRUE, 0, FALSE) >>)
    ELSE \E oserror \in BOOLEAN :
         IF oserror
         THEN /\ UNCHANGED << fs, written >>
              /\ SysExit(1, << Ev("unlink", file_path, FALSE, 0, FALSE) >>)
         ELSE /\ fs' = [fs EXCEPT ![file_path] = NoFile]
              /\ written' = written \ {file_path}
              /\ Goto(next, << Ev("unlink", file_path, TRUE, 0, FALSE) >>)

\* ------------------------------------------------------------------ main()

Init ==
    /\ dirs \in SUBSET { GO_PROJECT_TO_TEST_PATH, GO_REPORT_GENERATOR_CMD_PATH }
    /\ \E tools \in SUBSET ToolFiles :
          /\ go_main_file \in tools => GO_REPORT_GENERATOR_CMD_PATH \in dirs
          /\ fs = [f \in Files |-> IF f \in tools THEN [exists |-> TRUE, size |-> 1]
                                                  ELSE NoFile]
    /\ written = {}
    /\ pc = "main"
    /\ exitCode = -1
    /\ i = 1
    /\ ret = FALSE
    /\ csharp_go_summary_ok = FALSE
    /\ csharp_dotnet_summary_ok = FALSE
    /\ go_proj_go_summary_ok = FALSE
    /\ go_proj_dotnet_summary_ok = FALSE
    /\ args = NoArgs
    /\ process = NoProcess
    /\ log = << >>
    /\ run = 1

\* A plausible slip: the diagnostic is printed but sys.exit(1) is lost.
PreflightGo_NoExit ==
    /\ pc = "main"
    /\ IF ~(GO_REPORT_GENERATOR_CMD_PATH \in dirs) \/ ~fs[go_main_file].exists
       THEN Goto("main_dll", << Ev("preflight", go_main_file, FALSE, 0, FALSE) >>)
       ELSE Goto("main_dll", << Ev("preflight", go_main_file, TRUE, 0, FALSE) >>)
    /\ UNCHANGED << fs, dirs, written, i, locals, args, process, run >>

\* if not GO_REPORT_GENERATOR_CMD_PATH.is_dir() or not go_main_file.is_file()
PreflightGo ==
    /\ pc = "main"
    /\ IF ~(GO_REPORT_GENERATOR_CMD_PATH \in dirs) \/ ~fs[go_main_file].exists
       THEN SysExit(1, << Ev("preflight", go_main_file, FALSE, 0, FALSE) >>)
       ELSE Goto("main_dll", << Ev("preflight", go_main_file, TRUE, 0, FALSE) >>)
    /\ UNCHANGED << fs, dirs, written, i, locals, args, process, run >>

\* A plausible slip: main() calls the Go project workflow first.
PreflightDotnet_GoFirst ==
    /\ pc = "main_dll"
    /\ IF ~fs[DOTNET_REPORT_GENERATOR_DLL_PATH].exists
       THEN SysExit(1, << Ev("preflight", DOTNET_REPORT_GENERATOR_DLL_PATH, FALSE, 0, FALSE) >>)
       ELSE Goto("go_ensure_dir", << Ev("preflight", DOTNET_REPORT_GENERATOR_DLL_PATH, TRUE, 0, FALSE) >>)
    /\ UNCHANGED << fs, dirs, written, i, locals, args, process, run >>

\* if not DOTNET_REPORT_GENERATOR_DLL_PATH.exists()
PreflightDotnet ==
    /\ pc = "main_dll"
    /\ IF ~fs[DOTNET_REPORT_GENERATOR_DLL_PATH].exists
       THEN SysExit(1, << Ev("preflight", DOTNET_REPORT_GENERATOR_DLL_PATH, FALSE, 0, FALSE) >>)
       ELSE Goto("cs_ensure_dir", << Ev("preflight", DOTNET_REPORT_GENERATOR_DLL_PATH, TRUE, 0, FALSE) >>)
    /\ UNCHANGED << fs, dirs, written, i, locals, args, process, run >>

\* ---------------------------------------------------- run_csharp_workflow()

CsEnsureDir ==
    /\ pc = "cs_ensure_dir"
    /\ EnsureDir(CsDirs[i], IF i < Len(CsDirs) THEN "cs_ensure_dir" ELSE "cs_dotnet_test")
    /\ i' = IF pc' = "exited" THEN i ELSE IF i < Len(CsDirs) THEN i + 1 ELSE 1
    /\ UNCHANGED << fs, written, locals, args, process, run >>

CsDotnetTest ==
    /\ pc = "cs_dotnet_test"
    /\ RunCommand(DOTNET_TEST, FALSE, FALSE, "cs_check_xml")
    /\ UNCHANGED << dirs, i, locals, run >>

CsCheckXml ==
    /\ pc = "cs_check_xml"
    /\ CallCheck(CSHARP_COBERTURA_XML_PATH, "cs_xml_if")
    /\ UNCHANGED << csharp_go_summary_ok, csharp_dotnet_summary_ok,
                    go_proj_go_summary_ok, go_proj_dotnet_summary_ok >>

\* if not check_file_generated(...): sys.exit(1)
CsXmlIf ==
    /\ pc = "cs_xml_if"
    /\ IF ~ret THEN SysExit(1, << >>) ELSE Goto("cs_go_report", << >>)
    /\ UNCHANGED << fs, dirs, written, i, locals, args, process, run >>

CsGoReport ==
    /\ pc = "cs_go_report"
    /\ RunCommand(GO_REPORT_CSHARP, FALSE, FALSE, "cs_check_go_summary")
    /\ UNCHANGED << dirs, i, locals, run >>

CsCheckGoSummary ==
    /\ pc = "cs_check_go_summary"
    /\ CallCheck(SummaryTxt(CSHARP_REPORTS_FROM_GO_TOOL_DIR), "cs_dotnet_report")
    /\ csharp_go_summary_ok' = ret'
    /\ UNCHANGED << csharp_dotnet_summary_ok, go_proj_go_summary_ok,
                    go_proj_dotnet_summary_ok >>

CsDotnetReport ==
    /\ pc = "cs_dotnet_report"
    /\ RunCommand(DOTNET_RG_CSHARP, FALSE, FALSE, "cs_check_dotnet_summary")
    /\ UNCHANGED << dirs, i, locals, run >>

CsCheckDotnetSummary ==
    /\ pc = "cs_check_dotnet_summary"
    /\ CallCheck(SummaryTxt(CSHARP_REPORTS_FROM_DOTNET_TOOL_DIR), "cs_summary_if")
    /\ csharp_dotnet_summary_ok' = ret'
    /\ UNCHANGED << csharp_go_summary_ok, go_proj_go_summary_ok,
                    go_proj_dotnet_summary_ok >>

\* A plausible slip: only the second summary's flag is tested.
CsSummaryIf_OnlyDotnet ==
    /\ pc = "cs_summary_if"
    /\ IF ~csharp_dotnet_summary_ok
       THEN SysExit(1, << >>)
       ELSE Goto("go_ensure_dir", << >>)
    /\ UNCHANGED << fs, dirs, written, i, locals, args, process, run >>

\* if not (csharp_go_summary_ok and csharp_dotnet_summary_ok): sys.exit(1)
CsSummaryIf ==
    /\ pc = "cs_summary_if"
    /\ IF ~(csharp_go_summary_ok /\ csharp_dotnet_summary_ok)
       THEN SysExit(1, << >>)
       ELSE Goto("go_ensure_dir", << >>)
    /\ UNCHANGED << fs, dirs, written, i, locals, args, process, run >>


\* ------------------------------------------------ run_go_project_workflow()

GoEnsureDir ==
    /\ pc = "go_ensure_dir"
    /\ EnsureDir(GoDirs[i], IF i < Len(GoDirs) THEN "go_ensure_dir" ELSE "go_project_exists")
    /\ i' = IF pc' = "exited" THEN i ELSE IF i < Len(GoDirs) THEN i + 1 ELSE 1
    /\ UNCHANGED << fs, written, locals, args, process, run >>

\* if not GO_PROJECT_TO_TEST_PATH.exists(): sys.exit(1)
GoProjectExists ==
    /\ pc = "go_project_exists"
    /\ IF ~(GO_PROJECT_TO_TEST_PATH \in dirs)
       THEN SysExit(1, << Ev("exists", GO_PROJECT_TO_TEST_PATH, FALSE, 0, FALSE) >>)
       ELSE Goto("go_unlink_native", << Ev("exists", GO_PROJECT_TO_TEST_PATH, TRUE, 0, FALSE) >>)
    /\ UNCHANGED << fs, dirs, written, i, locals, args, process, run >>

GoUnlinkNative ==
    /\ pc = "go_unlink_native"
    /\ Unlink(GO_PROJECT_NATIVE_COVERAGE_FILE, "go_unlink_xml")
    /\ UNCHANGED << dirs, i, locals, args, process, run >>

GoUnlinkXml ==
    /\ pc = "go_unlink_xml"
    /\ Unlink(GO_PROJECT_COBERTURA_XML_FILE, "go_test")
    /\ UNCHANGED << dirs, i, locals, args, process, run >>

GoTest ==
    /\ pc = "go_test"
    /\ RunCommand(GO_TEST, FALSE, FALSE, "go_check_native")
    /\ UNCHANGED << dirs, i, locals, run >>

GoCheckNative ==
    /\ pc = "go_check_native"
    /\ CallCheck(GO_PROJECT_NATIVE_COVERAGE_FILE, "go_native_if")
    /\ UNCHANGED << csharp_go_summary_ok, csharp_dotnet_summary_ok,
                    go_proj_go_summary_ok, go_proj_dotnet_summary_ok >>

\* A plausible slip: the conversion step is skipped.
GoNativeIf_SkipConvert ==
    /\ pc = "go_native_if"
    /\ IF ~ret THEN SysExit(1, << >>) ELSE Goto("go_check_xml", << >>)
    /\ UNCHANGED << fs, dirs, written, i, locals, args, process, run >>

\* if not check_file_generated(...): sys.exit(1)
GoNativeIf ==
    /\ pc = "go_native_if"
    /\ IF ~ret THEN SysExit(1, << >>) ELSE Goto("go_convert", << >>)
    /\ UNCHANGED << fs, dirs, written, i, locals, args, process, run >>

\* The converter is the one command given as a string, with shell=True.
GoConvert ==
    /\ pc = "go_convert"
    /\ RunCommand(GOCOVER_COBERTURA, TRUE, TRUE, "go_check_xml")
    /\ UNCHANGED << dirs, i, locals, run >>

GoCheckXml ==
    /\ pc = "go_check_xml"
    /\ CallCheck(GO_PROJECT_COBERTURA_XML_FILE, "go_xml_if")
    /\ UNCHANGED << csharp_go_summary_ok, csharp_dotnet_summary_ok,
                    go_proj_go_summary_ok, go_proj_dotnet_summary_ok >>

\* A plausible slip: the result of the check is dropped.
GoXmlIf_NoExit ==
    /\ pc = "go_xml_if"
    /\ Goto("go_go_report", << >>)
    /\ UNCHANGED << fs, dirs, written, i, locals, args, process, run >>

\* if not check_file_generated(...): sys.exit(1)
GoXmlIf ==
    /\ pc = "go_xml_if"
    /\ IF ~ret THEN SysExit(1, << >>) ELSE Goto("go_go_report", << >>)
    /\ UNCHANGED << fs, dirs, written, i, locals, args, process, run >>

GoGoReport ==
    /\ pc = "go_go_report"
    /\ RunCommand(GO_REPORT_GO_PROJ, FALSE, FALSE, "go_check_go_summary")
    /\ UNCHANGED << dirs, i, locals, run >>

GoCheckGoSummary ==
    /\ pc = "go_check_go_summary"
    /\ CallCheck(SummaryTxt(GO_PROJECT_REPORTS_FROM_GO_TOOL_DIR), "go_dotnet_report")
    /\ go_proj_go_summary_ok' = ret'
    /\ UNCHANGED << csharp_go_summary_ok, csharp_dotnet_summary_ok,
                    go_proj_dotnet_summary_ok >>

GoDotnetReport ==
    /\ pc = "go_dotnet_report"
    /\ RunCommand(DOTNET_RG_GO_PROJ, FALSE, FALSE, "go_check_dotnet_summary")
    /\ UNCHANGED << dirs, i, locals, run >>

GoCheckDotnetSummary ==
    /\ pc = "go_check_dotnet_summary"
    /\ CallCheck(SummaryTxt(GO_PROJECT_REPORTS_FROM_DOTNET_TOOL_DIR), "go_summary_if")
    /\ go_proj_dotnet_summary_ok' = ret'
    /\ UNCHANGED << csharp_go_summary_ok, csharp_dotnet_summary_ok,
                    go_proj_go_summary_ok >>

\* if not (go_proj_go_summary_ok and go_proj_dotnet_summary_ok): sys.exit(1)
GoSummaryIf ==
    /\ pc = "go_summary_if"
    /\ IF ~(go_proj_go_summary_ok /\ go_proj_dotnet_summary_ok)
       THEN SysExit(1, << >>)
       ELSE Goto("main_done", << >>)
    /\ UNCHANGED << fs, dirs, written, i, locals, args, process, run >>

\* print("All workflows completed successfully."); main() returns: status 0.
MainDone ==
    /\ pc = "main_done"
    /\ SysExit(0, << Ev("success", "", TRUE, 0, FALSE) >>)
    /\ UNCHANGED << fs, dirs, written, i, locals, args, process, run >>

\* The script is started again on the filesystem the previous run left.
Restart ==
    /\ pc = "exited"
    /\ run < MaxRuns
    /\ run' = run + 1
    /\ pc' = "main"
    /\ exitCode' = -1
    /\ i' = 1
    /\ ret' = FALSE
    /\ csharp_go_summary_ok' = FALSE
    /\ csharp_dotnet_summary_ok' = FALSE
    /\ go_proj_go_summary_ok' = FALSE
    /\ go_proj_dotnet_summary_ok' = FALSE
    /\ args' = NoArgs
    /\ process' = NoProcess
    /\ log' = << >>
    /\ written' = {}
    /\ UNCHANGED << fs, dirs >>

Next ==
    \/ PreflightGo
    \/ PreflightDotnet
    \/ CsEnsureDir
    \/ CsDotnetTest
    \/ CsCheckXml
    \/ CsXmlIf
    \/ CsGoReport
    \/ CsCheckGoSummary
    \/ CsDotnetReport
    \/ CsCheckDotnetSummary
    \/ CsSummaryIf
    \/ GoEnsureDir
    \/ GoProjectExists
    \/ GoUnlinkNative
    \/ GoUnlinkXml
    \/ GoTest
    \/ GoCheckNative
    \/ GoNativeIf
    \/ GoConvert
    \/ GoCheckXml
    \/ GoXmlIf
    \/ GoGoReport
    \/ GoCheckGoSummary
    \/ GoDotnetReport
    \/ GoCheckDotnetSummary
    \/ GoSummaryIf
    \/ MainDone
    \/ Restart

Spec == Init /\ [][Next]_vars

\* The script is sequential and every external command is awaited: a step
\* that can be taken is taken.
FairSpec == Spec /\ WF_vars(Next)

\* --------------------------------------- run_command on arbitrary arguments

\* A call of run_command with any command name, either kind of command
\* specification and either execution mode.
InitRunCommand ==
    /\ \E a \in [name : Commands, is_string_command : BOOLEAN, shell : BOOLEAN] : args = a
    /\ dirs \in SUBSET { OutDir(args.name) }
    /\ fs = [f \in Files |-> NoFile]
    /\ written = {}
    /\ pc = "call"
    /\ exitCode = -1
    /\ i = 1
    /\ ret = FALSE
    /\ csharp_go_summary_ok = FALSE
    /\ csharp_dotnet_summary_ok = FALSE
    /\ go_proj_go_summary_ok = FALSE
    /\ go_proj_dotnet_summary_ok = FALSE
    /\ process = NoProcess
    /\ log = << >>
    /\ run = 1

CallRunCommand ==
    /\ pc = "call"
    /\ RunCommand(args.name, args.is_string_command, args.shell, "returned")
    /\ UNCHANGED << dirs, i, locals, run >>

SpecRunCommand == InitRunCommand /\ [][CallRunCommand]_vars


\* ----------------------------------------------------------------- claims

\* Log entries that are an attempt to invoke an external command.
InvokeKinds == { "run", "raise", "reject" }
\* Log entries that are work: anything but the preflight and the exit.
WorkKinds == InvokeKinds \cup { "ensure_dir", "exists", "unlink", "check" }

\* What the steps of the Go project workflow act on.
GoTargets ==
    GoCommands \cup { GO_PROJECT_REPORTS_FROM_GO_TOOL_DIR,
                      GO_PROJECT_REPORTS_FROM_DOTNET_TOOL_DIR,
                      GO_PROJECT_TO_TEST_PATH, GO_PROJECT_NATIVE_COVERAGE_FILE,
                      GO_PROJECT_COBERTURA_XML_FILE,
                      SummaryTxt(GO_PROJECT_REPORTS_FROM_GO_TOOL_DIR),
                      SummaryTxt(GO_PROJECT_REPORTS_FROM_DOTNET_TOOL_DIR) }

\* The entry belongs to the Go project workflow.
IsGoStep(e) == e.kind \in WorkKinds /\ e.target \in GoTargets

\* The entry belongs to the C# project workflow.
IsCsStep(e) == e.kind \in WorkKinds /\ e.target \notin GoTargets

\* The exit entry, when there is one, is the last entry of the log.
ExitIsLast == \A k \in DOMAIN log : log[k].kind = "exit" => k = Len(log)

\* C1: a command that returns a non-zero exit code is the last operation of
\* the run: the process has exited with status 1 and the only entry after
\* the command's is that exit (no command, no check).
C1_FailFastOnCommandFailure ==
    \A k \in DOMAIN log :
        (log[k].kind = "run" /\ log[k].code # 0) =>
            /\ pc = "exited"
            /\ exitCode = 1
            /\ Len(log) = k + 1
            /\ log[k + 1].kind = "exit"
            /\ log[k + 1].code = 1

\* The test runner of the C# project returned a non-zero exit code.
C1_Witness ==
    /\ pc = "exited"
    /\ \E k \in DOMAIN log :
          log[k].kind = "run" /\ log[k].target = DOTNET_TEST /\ log[k].code = MaxRC

SummaryA == { SummaryTxt(CSHARP_REPORTS_FROM_GO_TOOL_DIR),
              SummaryTxt(GO_PROJECT_REPORTS_FROM_GO_TOOL_DIR) }
GeneratorB(f) ==
    IF f = SummaryTxt(CSHARP_REPORTS_FROM_GO_TOOL_DIR) THEN DOTNET_RG_CSHARP
                                                         ELSE DOTNET_RG_GO_PROJ

AllStagesSucceeded ==
    /\ \A f \in ToolFiles :
          \E k \in DOMAIN log : log[k] = Ev("preflight", f, TRUE, 0, FALSE)
    /\ \A c \in Commands :
          \E k \in DOMAIN log : log[k].kind = "run" /\ log[k].target = c /\ log[k].code = 0
    /\ \A f \in CoverageFiles \cup SummaryFiles :
          \E k \in DOMAIN log : /\ log[k].kind = "check" /\ log[k].target = f
                                /\ log[k].ok /\ log[k].code > 0
    /\ \A k \in DOMAIN log : log[k].kind # "exit" => log[k].ok

\* C3: a run that has ended has status 0 or 1; it has status 0, and printed
\* the success line, exactly when every stage of both workflows succeeded.
C3_ExitStatus ==
    /\ pc # "exited" => exitCode = -1
    /\ pc = "exited" =>
          /\ exitCode \in {0, 1}
          /\ exitCode = 0 <=> AllStagesSucceeded
          /\ exitCode = 0 <=> \E k \in DOMAIN log : log[k].kind = "success"

\* A run ended with status 0.
C3_Witness == pc = "exited" /\ exitCode = 0 /\ AllStagesSucceeded

\* C4 as stated: in both workflows a check of a coverage file passes only on
\* a file that was written during the current run.
C4_ChecksPassOnlyOnFreshCoverage ==
    \A k \in DOMAIN log :
        (log[k].kind = "check" /\ log[k].target \in CoverageFiles /\ log[k].ok)
            => log[k].aux

\* The part of C4 the script does ensure: in the Go project workflow, which
\* deletes both coverage files first, a coverage check passes only on a file
\* written during the current run.
C4_GoChecksPassOnlyOnFreshCoverage ==
    \A k \in DOMAIN log :
        (/\ log[k].kind = "check" /\ log[k].ok
         /\ log[k].target \in { GO_PROJECT_NATIVE_COVERAGE_FILE,
                                GO_PROJECT_COBERTURA_XML_FILE })
            => log[k].aux

\* The four C#-workflow operations that must have succeeded before entry k.
CsCompletedBefore(k) ==
    \E a \in 1..(k - 1) :
      /\ log[a].kind = "run" /\ log[a].ok /\ log[a].target = GO_REPORT_CSHARP
      /\ \E b \in (a + 1)..(k - 1) :
         /\ log[b].kind = "check" /\ log[b].ok
         /\ log[b].target = SummaryTxt(CSHARP_REPORTS_FROM_GO_TOOL_DIR)
         /\ \E c \in (b + 1)..(k - 1) :
            /\ log[c].kind = "run" /\ log[c].ok /\ log[c].target = DOTNET_RG_CSHARP
            /\ \E d \in (c + 1)..(k - 1) :
               /\ log[d].kind = "check" /\ log[d].ok
               /\ log[d].target = SummaryTxt(CSHARP_REPORTS_FROM_DOTNET_TOOL_DIR)

\* C5: every step of the Go project workflow comes after both generator
\* invocations and both Summary.txt checks of the C# workflow have succeeded,
\* no C# step comes after a Go step, and nothing follows the exit.
C5_GoAfterCsCompleted ==
    /\ ExitIsLast
    /\ \A k \in DOMAIN log : IsGoStep(log[k]) => CsCompletedBefore(k)
    /\ \A k \in DOMAIN log : IsCsStep(log[k]) =>
          \A j \in 1..(k - 1) : ~IsGoStep(log[j])

\* The Go project workflow has started.
C5_Witness == \E k \in DOMAIN log : IsGoStep(log[k]) /\ log[k].kind = "run"

\* One of the two report generators is missing.
ToolMissing ==
    \/ GO_REPORT_GENERATOR_CMD_PATH \notin dirs
    \/ \E f \in ToolFiles : ~fs[f].exists

\* C6: all work (directory creation, deletion, command, check) is preceded
\* by both preflight checks having passed; with a tool missing no work is
\* ever done and the run ends with status 1.
C6_PreflightFirst ==
    /\ \A k \in DOMAIN log : log[k].kind \in WorkKinds =>
          /\ k > 2
          /\ log[1] = Ev("preflight", go_main_file, TRUE, 0, FALSE)
          /\ log[2] = Ev("preflight", DOTNET_REPORT_GENERATOR_DLL_PATH, TRUE, 0, FALSE)
    /\ ToolMissing =>
          /\ \A k \in DOMAIN log : log[k].kind \notin WorkKinds
          /\ pc = "exited" => exitCode = 1
          /\ pc \in { "main", "main_dll", "exited" }

\* The Go tool is there, ReportGenerator.dll is missing, the run has ended.
C6_Witness ==
    /\ pc = "exited"
    /\ exitCode = 1
    /\ fs[go_main_file].exists
    /\ ~fs[DOTNET_REPORT_GENERATOR_DLL_PATH].exists

\* C7: after a call of run_command, a mode/specification mismatch has ended
\* the process with status 1 without subprocess.run having been called and
\* without any file written; subprocess.run is called only when shell and
\* specification agree.
C7_ModeMismatchRejected ==
    pc # "call" =>
        /\ (args.shell # args.is_string_command) =>
              /\ pc = "exited"
              /\ exitCode = 1
              /\ ~process.invoked
              /\ \A f \in Files : ~fs[f].exists
              /\ \A k \in DOMAIN log : log[k].kind \notin { "run", "raise" }
        /\ process.invoked => (args.shell <=> args.is_string_command)

\* run_command was called with a string and shell=False.
C7_Witness ==
    /\ pc = "exited"
    /\ args.is_string_command
    /\ ~args.shell
    /\ ~process.invoked

\* C8: when a report generator is invoked, ensure_dir has succeeded for its
\* output directory earlier in the run, and the directory (still) exists.
C8_DirEnsuredBeforeGenerator ==
    \A k \in DOMAIN log :
        (log[k].kind \in InvokeKinds /\ log[k].target \in Generators) =>
            /\ \E j \in 1..(k - 1) :
                  log[j] = Ev("ensure_dir", OutDir(log[k].target), TRUE, 0, FALSE)
            /\ OutDir(log[k].target) \in dirs

\* The .NET tool has been invoked for the Go project.
C8_Witness ==
    \E k \in DOMAIN log : log[k].kind = "run" /\ log[k].target = DOTNET_RG_GO_PROJ

\* Both tools were found and every command invoked so far returned 0 and
\* wrote a non-empty artifact.
EnvGood ==
    \A k \in DOMAIN log :
        /\ log[k].kind = "preflight" => log[k].ok
        /\ log[k].kind \in InvokeKinds => log[k].ok /\ log[k].aux

\* No filesystem operation of the script itself has failed so far.
FsGood ==
    \A k \in DOMAIN log : log[k].kind \in { "ensure_dir", "exists", "unlink" } => log[k].ok

\* The commands and checks of the log, in order.
Steps ==
    LET s == SelectSeq(log, LAMBDA e : e.kind \in { "run", "check" })
    IN  [k \in 1..Len(s) |-> s[k].target]

\* The linear order of both workflows; only the Go project has a conversion.
ExpectedSteps ==
    << DOTNET_TEST, CSHARP_COBERTURA_XML_PATH,
       GO_REPORT_CSHARP, SummaryTxt(CSHARP_REPORTS_FROM_GO_TOOL_DIR),
       DOTNET_RG_CSHARP, SummaryTxt(CSHARP_REPORTS_FROM_DOTNET_TOOL_DIR),
       GO_TEST, GO_PROJECT_NATIVE_COVERAGE_FILE,
       GOCOVER_COBERTURA, GO_PROJECT_COBERTURA_XML_FILE,
       GO_REPORT_GO_PROJ, SummaryTxt(GO_PROJECT_REPORTS_FROM_GO_TOOL_DIR),
       DOTNET_RG_GO_PROJ, SummaryTxt(GO_PROJECT_REPORTS_FROM_DOTNET_TOOL_DIR) >>

CompletedInOrder == pc = "exited" /\ exitCode = 0 /\ Steps = ExpectedSteps

\* C9 as stated: a run in which both tools are present and every command
\* returns 0 and writes its non-empty artifact ends with status 0.
C9_GoodToolsExitZero == (pc = "exited" /\ EnvGood) => exitCode = 0

\* C9 as amended: if moreover no directory creation fails, the Go project
\* directory exists and no deletion of a stale file fails, the run eventually
\* ends with status 0 after the commands and checks in the linear order.
C9_GoodRunCompletes == ([](EnvGood /\ FsGood)) => <>CompletedInOrder

\* A first run that completed, the conversion made for the Go project only.
C9_Witness ==
    /\ run = 1
    /\ EnvGood
    /\ FsGood
    /\ CompletedInOrder
    /\ Cardinality({ k \in DOMAIN log : log[k].target = GOCOVER_COBERTURA }) = 1

\* C10: a call of check_file_generated returns TRUE exactly when the path
\* exists with size > 0, changes no file and no directory, and does not end
\* the process.
C10_CheckIsPure ==
    [][ (Len(log') = Len(log) + 1 /\ log'[Len(log')].kind = "check") =>
           LET f == log'[Len(log')].target
           IN  /\ ret' = (fs[f].exists /\ fs[f].size > 0)
               /\ fs' = fs
               /\ dirs' = dirs
               /\ pc' # "exited"
               /\ exitCode' = exitCode ]_vars

\* The check returned FALSE for a Summary.txt that exists with zero bytes,
\* and the script is still running.
C10_Witness ==
    /\ pc = "cs_dotnet_report"
    /\ ~ret
    /\ fs[SummaryTxt(CSHARP_REPORTS_FROM_GO_TOOL_DIR)].exists
    /\ fs[SummaryTxt(CSHARP_REPORTS_FROM_GO_TOOL_DIR)].size = 0

====
